---- MODULE Spec2Model ----
(***************************************************************************)
(* Beat Drift Monitor: the PLL beat tracker of core/beat_tracker.js.       *)
(*                                                                         *)
(* Number representation.  Timestamps and the clock are integer            *)
(* milliseconds.  period, targetPeriod, phase and recentPeriods are        *)
(* fixed-point numbers in units of 1/Scale ms; confidence is a fixed-point *)
(* number in units of 1/ConfScale.  Every product and quotient of the      *)
(* source is computed on these units and rounded to the nearest unit.      *)
(***************************************************************************)
EXTENDS Integers, Sequences, FiniteSets, TLC

\* ---------------------------------------------------------------- CONSTANTS
CAL_BEATS == 8
ADAPT_FAST_PCT == 8
ADAPT_SLOW_PERMILLE == 5
GRID_TOLERANCE_PCT == 35
SILENCE_TIMEOUT_MS == 4000
PERIOD_HISTORY == 12
MIN_PERIOD_MS == 200
MAX_PERIOD_MS == 1500

\* resolution of the fixed-point numbers
Scale == 1000
ConfScale == 1000

\* ------------------------------------------------------------------- bounds
\* the clock never passes MaxTime ms
MaxTime == 5500
\* onsetCount never passes MaxOnsets
MaxOnsets == 10
\* calOnsets never grows past MaxCal entries
MaxCal == 10
\* gridHits never passes MaxHits
MaxHits == 2

\* gaps (ms) between the clock and the timestamp of the next onset
OnsetGaps == {0, 500}
\* time (ms) that passes before a firing of the watchdog's interval timer
TickGaps == {0, 4500}
\* arguments of setTarget
Bpms == {50}

\* -------------------------------------------------------------- STATE ENUM
IDLE == "IDLE"
CALIBRATING == "CALIBRATING"
TRACKING == "TRACKING"
WAITING == "WAITING"
State == {IDLE, CALIBRATING, TRACKING, WAITING}

VARIABLES
  period,               \* 1/Scale ms between beats, 0 = undefined
  phase,                \* 1/Scale ms, timestamp of last grid alignment
  targetPeriod,         \* 1/Scale ms, reference period
  confidence,           \* 1/ConfScale, lock quality
  calOnsets,            \* sequence of timestamps (ms)
  state,
  onsetCount,
  gridHits,
  gridMisses,
  recentPeriods,        \* sequence of 1/Scale ms
  lastOnsetTime,        \* ms
  silenceCheckInterval, \* TRUE while the interval timer is set
  timers,               \* number of interval timers set and not yet cleared
  now,                  \* the clock read by performance.now() / getTime()
  op,                   \* the last call of reset, addOnset, setTarget or
                        \* of the interval callback
  arg,                  \* the argument of that call (timestamp or bpm), else 0
  updates,              \* Updates that call handed to onUpdate
  traced,               \* records that call handed to traceOnset
  sample,               \* the interval list handed to findDominantPeriod
  dominant,             \* what findDominantPeriod returned for sample
  maxSize,              \* capacity the trace buffer was created with
  entries,              \* the records the trace buffer holds, oldest first
  added,                \* number of add calls since the last clear
  fetched               \* what the last getAll / getLast call returned

\* the tracker's own state (all but the clock and the outputs of the last call)
tracker == <<period, phase, targetPeriod, confidence, calOnsets, state,
             onsetCount, gridHits, gridMisses, recentPeriods, lastOnsetTime>>

vars == <<period, phase, targetPeriod, confidence, calOnsets, state, onsetCount,
          gridHits, gridMisses, recentPeriods, lastOnsetTime,
          silenceCheckInterval, timers, now, op, arg, updates, traced,
          sample, dominant, maxSize, entries, added, fetched>>

\* the estimator's argument and result when it is called on its own
estimator == <<sample, dominant>>

\* the trace buffer when it is used on its own
recorder == <<maxSize, entries, added, fetched>>

\* ----------------------------------------------------------------- numbers
Abs(x) == IF x < 0 THEN 0 - x ELSE x
Min(a, b) == IF a < b THEN a ELSE b
Max(a, b) == IF a > b THEN a ELSE b

\* a / b rounded to the nearest integer, halves up (b > 0)
RoundDiv(a, b) == (2 * a + b) \div (2 * b)

\* Math.round(a / b), b # 0: floor(a / b + 0.5)
MathRound(a, b) == IF b < 0 THEN RoundDiv(0 - a, 0 - b) ELSE RoundDiv(a, b)

\* the IEEE value Infinity as a period (60000 / 0) or as a bpm
Infinity == 2000000000

\* Math.ceil(a / b) for a >= 0, b > 0
CeilDiv(a, b) == (a + b - 1) \div b

\* ------------------------------------------- findDominantPeriod (intervals)
RECURSIVE Insert(_, _)
Insert(s, x) ==
  IF s = <<>> THEN <<x>>
  ELSE IF x < Head(s) THEN <<x>> \o s
  ELSE <<Head(s)>> \o Insert(Tail(s), x)

\* [...intervals].sort((a, b) => a - b)
RECURSIVE SortAsc(_)
SortAsc(s) ==
  IF s = <<>> THEN <<>>
  ELSE Insert(SortAsc(SubSeq(s, 1, Len(s) - 1)), s[Len(s)])

\* mutant: the filter has no upper limit
IsValidIntervalNoCeiling(i) == i > MIN_PERIOD_MS

\* i > C.MIN_PERIOD_MS && i < 2000
IsValidInterval(i) == i > MIN_PERIOD_MS /\ i < 2000

ValidIntervals(intervals) == SelectSeq(SortAsc(intervals), IsValidInterval)

\* valid.slice(0, Math.max(1, Math.ceil(valid.length * 0.6)))
Candidates(valid) == SubSeq(valid, 1, Max(1, CeilDiv(6 * Len(valid), 10)))

\* arr[Math.floor(arr.length / 2)], 0-based in the source
MedianOf(arr) == arr[(Len(arr) \div 2) + 1]

\* |iv / base - round(iv / base)| < 0.15 and 1 <= round(iv / base) <= 4
FitsMultiple(iv, base) ==
  LET nearestInt == MathRound(iv, base)
  IN  /\ Abs(iv - nearestInt * base) * 100 < 15 * base
      /\ nearestInt >= 1
      /\ nearestInt <= 4

ClusterScore(valid, base) ==
  Cardinality({i \in 1..Len(valid) : FitsMultiple(valid[i], base)})

findDominantPeriod(intervals) ==
  IF Len(intervals) = 0 THEN 0
  ELSE LET valid == ValidIntervals(intervals)
       IN  IF Len(valid) = 0 THEN 0
           ELSE LET candidateMedian == MedianOf(Candidates(valid))
                IN  IF 2 * ClusterScore(valid, candidateMedian) >= Len(valid)
                    THEN candidateMedian
                    ELSE MedianOf(valid)

\* calOnsets[i] - calOnsets[i - 1] for i = 1 .. length - 1
Intervals(onsets) == [i \in 1..(Len(onsets) - 1) |-> onsets[i + 1] - onsets[i]]

\* --------------------------------------------------------------- emitUpdate
\* 60000 / p in 1/1000 BPM, by long division (p > 0, in 1/Scale ms)
BpmMilli(p) ==
  LET n  == 60000 * Scale * 10
      q1 == n \div p
      r1 == n % p
  IN  IF p = Infinity THEN 0 ELSE q1 * 100 + ((r1 * 100) \div p)

NoBpm == <<>>

\* currentBpm ? Math.round(currentBpm * 10) / 10 : null, in tenths of a BPM,
\* currentBpm being period > 0 ? 60000 / period : null (0 for Infinity)
RoundedBpm(p) ==
  IF p > 0 /\ p # Infinity
  THEN <<RoundDiv(BpmMilli(p), 100)>>
  ELSE NoBpm

\* Math.round(drift * 10) / 10, in tenths of a BPM
RoundedDrift(p, tp) ==
  IF p > 0 /\ tp > 0
  THEN RoundDiv(BpmMilli(p) - BpmMilli(tp), 100)
  ELSE 0

\* Math.round(confidence * 100)
ConfidencePct(c) == RoundDiv(c * 100, ConfScale)

Update(st, p, tp, c, cal, gh, gm) ==
  [state             |-> st,
   currentBpm        |-> RoundedBpm(p),
   targetBpm         |-> RoundedBpm(tp),
   drift             |-> RoundedDrift(p, tp),
   confidence        |-> ConfidencePct(c),
   beatCount         |-> Len(cal),
   calibrationNeeded |-> CAL_BEATS,
   gridHits          |-> gh,
   gridMisses        |-> gm,
   period            |-> p,
   targetPeriod      |-> tp]

\* the Update emitUpdate() builds from the state the operation leaves
emitUpdate ==
  updates' = <<Update(state', period', targetPeriod', confidence', calOnsets',
                      gridHits', gridMisses')>>

noUpdate == updates' = <<>>

\* ------------------------------------------------------------------- reset
\* mutant: reset leaves the confidence as it is
ResetStateKeepingConfidence ==
  /\ period' = 0
  /\ phase' = 0
  /\ targetPeriod' = 0
  /\ confidence' = confidence
  /\ calOnsets' = <<>>
  /\ recentPeriods' = <<>>
  /\ onsetCount' = 0
  /\ gridHits' = 0
  /\ gridMisses' = 0
  /\ state' = CALIBRATING

ResetState ==
  /\ period' = 0
  /\ phase' = 0
  /\ targetPeriod' = 0
  /\ confidence' = 0
  /\ calOnsets' = <<>>
  /\ recentPeriods' = <<>>
  /\ onsetCount' = 0
  /\ gridHits' = 0
  /\ gridMisses' = 0
  /\ state' = CALIBRATING

Reset ==
  /\ op' = "reset"
  /\ arg' = 0
  /\ ResetState
  /\ UNCHANGED <<lastOnsetTime, silenceCheckInterval, timers, now, estimator,
                 recorder>>
  /\ traced' = <<>>
  /\ emitUpdate

\* ------------------------------------------------------------ enterWaiting
\* mutant: the transition keeps the confidence
enterWaitingKeepingConfidence ==
  /\ state' = WAITING
  /\ confidence' = confidence
  /\ emitUpdate

enterWaiting ==
  /\ state' = WAITING
  /\ confidence' = 0
  /\ emitUpdate

\* ------------------------------------------- startSilenceWatch / interval
\* mutant: the callback does not look at the state
SilenceDetectedAnyState(st, last, t) ==
  /\ last > 0
  /\ t - last > SILENCE_TIMEOUT_MS

\* mutant: the callback does not test lastOnsetTime > 0
SilenceDetectedNoSentinel(st, last, t) ==
  /\ st # IDLE
  /\ t - last > SILENCE_TIMEOUT_MS
  /\ (st = TRACKING \/ st = CALIBRATING)

\* the test of the interval callback: the watchdog forces WAITING
SilenceDetected(st, last, t) ==
  /\ st # IDLE
  /\ last > 0
  /\ t - last > SILENCE_TIMEOUT_MS
  /\ (st = TRACKING \/ st = CALIBRATING)

\* mutant: the timer already set is not cleared
TimersAfterStartLeaking(set, n) == n + 1

\* if (silenceCheckInterval) clearInterval(...); then setInterval(...)
TimersAfterStart(set, n) == (IF set THEN n - 1 ELSE n) + 1

StartSilenceWatch ==
  /\ timers' = TimersAfterStart(silenceCheckInterval, timers)
  /\ silenceCheckInterval' = TRUE
  /\ UNCHANGED <<period, phase, targetPeriod, confidence, calOnsets, state,
                 onsetCount, gridHits, gridMisses, recentPeriods,
                 lastOnsetTime, now, op, arg, updates, traced, estimator,
                 recorder>>

StopSilenceWatch ==
  /\ IF silenceCheckInterval
     THEN timers' = timers - 1 /\ silenceCheckInterval' = FALSE
     ELSE UNCHANGED <<timers, silenceCheckInterval>>
  /\ UNCHANGED <<period, phase, targetPeriod, confidence, calOnsets, state,
                 onsetCount, gridHits, gridMisses, recentPeriods,
                 lastOnsetTime, now, op, arg, updates, traced, estimator,
                 recorder>>

\* destroy(): stopSilenceWatch()
Destroy == StopSilenceWatch

\* one firing of the interval callback, gap ms after the clock's last reading
\* (the clock kept within maxTime)
TickWithin(gap, maxTime) ==
  /\ timers > 0
  /\ now + gap <= maxTime
  /\ op' = "tick"
  /\ arg' = 0
  /\ now' = now + gap
  /\ traced' = <<>>
  /\ UNCHANGED <<period, phase, targetPeriod, calOnsets, onsetCount, gridHits,
                 gridMisses, recentPeriods, lastOnsetTime,
                 silenceCheckInterval, timers, estimator, recorder>>
  /\ IF SilenceDetected(state, lastOnsetTime, now')
     THEN enterWaiting
     ELSE noUpdate /\ UNCHANGED <<state, confidence>>

Tick(gap) == TickWithin(gap, MaxTime)

\* --------------------------------------------------------------- setTarget
\* mutant: the period is rounded to a whole number of ms
PeriodOfBpmWholeMs(bpm) ==
  IF bpm = 0 THEN Infinity
  ELSE IF bpm = Infinity THEN 0
  ELSE MathRound(60000, bpm) * Scale

\* 60000 / bpm in 1/Scale ms; 60000 / 0 is Infinity, 60000 / Infinity is 0
PeriodOfBpm(bpm) ==
  IF bpm = 0 THEN Infinity
  ELSE IF bpm = Infinity THEN 0
  ELSE MathRound(60000 * Scale, bpm)

TargetConfidence == (7 * ConfScale) \div 10

\* mutant: setTarget leaves no calibration buffer
FabricatedNone == <<>>

\* new Array(C.CAL_BEATS + 1).fill(0)
FabricatedOnsets == [i \in 1..(CAL_BEATS + 1) |-> 0]

SetTarget(bpm) ==
  /\ op' = "setTarget"
  /\ arg' = bpm
  /\ targetPeriod' = PeriodOfBpm(bpm)
  /\ period' = targetPeriod'
  /\ phase' = now * Scale
  /\ confidence' = TargetConfidence
  /\ state' = TRACKING
  /\ calOnsets' = FabricatedOnsets
  /\ UNCHANGED <<onsetCount, gridHits, gridMisses, recentPeriods,
                 lastOnsetTime, silenceCheckInterval, timers, now, estimator,
                 recorder>>
  /\ traced' = <<>>
  /\ emitUpdate

\* ---------------------------------------------------------------- addOnset
\* ---- grid position (timeSincePhase tsp and period p in 1/Scale ms)
\* Math.round(timeSincePhase / period); timeSincePhase / Infinity is 0
NearestBeat(tsp, p) == IF p = Infinity THEN 0 ELSE MathRound(tsp, p)

\* offset * period = timeSincePhase - nearestBeat * period
OffsetTimesPeriod(tsp, p) == tsp - NearestBeat(tsp, p) * p

\* offset = beatFraction - nearestBeat, in 1/1000 beat
OffsetMilli(tsp, p) ==
  IF p = Infinity THEN 0
  ELSE MathRound(OffsetTimesPeriod(tsp, p) * 1000, p)

\* absOffset < C.GRID_TOLERANCE (absOffset is 0 on an infinite period)
OnGrid(tsp, p) ==
  \/ p = Infinity
  \/ Abs(OffsetTimesPeriod(tsp, p)) * 100 < GRID_TOLERANCE_PCT * Abs(p)

\* impliedPeriod = timeSincePhase / nearestBeat (nearestBeat > 0)
ImpliedPeriod(tsp, n) == RoundDiv(tsp, n)

\* mutant: the implied period has no lower limit
ImpliedValidNoFloor(tsp, n) ==
  /\ n > 0
  /\ tsp < MAX_PERIOD_MS * Scale * n

\* impliedPeriod > MIN_PERIOD_MS && impliedPeriod < MAX_PERIOD_MS && nearestBeat > 0
ImpliedValid(tsp, n) ==
  /\ n > 0
  /\ tsp > MIN_PERIOD_MS * Scale * n
  /\ tsp < MAX_PERIOD_MS * Scale * n

\* period + C.ADAPT_FAST * (impliedPeriod - period)
AdaptPeriod(p, implied) == p + RoundDiv(ADAPT_FAST_PCT * (implied - p), 100)

\* targetPeriod + C.ADAPT_SLOW * (period - targetPeriod)
AdaptTarget(tp, p) == tp + RoundDiv(ADAPT_SLOW_PERMILLE * (p - tp), 1000)

\* timestamp - (nearestBeat * period) + (offset * period * 0.3), where offset
\* was taken on the period pOld before adaptation and period is now pNew:
\* offset * pNew * 0.3 = 0.3 * r * (1 + (pNew - pOld) / pOld), r = offset * pOld
CorrectedPhase(timestamp, n, r, pOld, pNew) ==
  LET x == RoundDiv(3 * r, 10)
  IN  timestamp * Scale - n * pNew
        + x + RoundDiv(x * RoundDiv((pNew - pOld) * 10000, pOld), 10000)

\* recentPeriods.push(impliedPeriod); shift when over C.PERIOD_HISTORY
PushPeriod(rp, implied) ==
  IF Len(rp) + 1 > PERIOD_HISTORY THEN Tail(Append(rp, implied))
  ELSE Append(rp, implied)

\* Math.min(1, confidence + 0.05)
ConfidenceAfterHit(c) == Min(ConfScale, c + (5 * ConfScale) \div 100)

\* mutant: a miss costs as much as a hit earns
ConfidenceAfterMissSteep(c) == Max(0, c - (5 * ConfScale) \div 100)

\* mutant: the decrement is not clamped at 0
ConfidenceAfterMissUnclamped(c) == c - (2 * ConfScale) \div 100

\* Math.max(0, confidence - 0.02)
ConfidenceAfterMiss(c) == Max(0, c - (2 * ConfScale) \div 100)

\* mutant: the correction leaves at least the confidence of a calibration
ConfidenceAfterCorrectionHalf(c) ==
  Max((5 * ConfScale) \div 10, c - (2 * ConfScale) \div 10)

\* Math.max(0.3, confidence - 0.2)
ConfidenceAfterCorrection(c) ==
  Max((3 * ConfScale) \div 10, c - (2 * ConfScale) \div 10)

\* mutant: the detection does not wait for gridMisses > 6
DoubleTempoDetectedEarly(tsp, p, hits, misses) ==
  /\ p # Infinity
  /\ Abs(OffsetTimesPeriod(tsp, p)) * 100 > 35 * Abs(p)
  /\ Abs(OffsetTimesPeriod(tsp, p)) * 100 < 65 * Abs(p)
  /\ 2 * misses > hits

\* absOffset > 0.35 && absOffset < 0.65 && gridMisses > gridHits * 0.5 && gridMisses > 6
DoubleTempoDetected(tsp, p, hits, misses) ==
  /\ p # Infinity
  /\ Abs(OffsetTimesPeriod(tsp, p)) * 100 > 35 * Abs(p)
  /\ Abs(OffsetTimesPeriod(tsp, p)) * 100 < 65 * Abs(p)
  /\ 2 * misses > hits
  /\ misses > 6

\* period / 2
HalfPeriod(p) == RoundDiv(p, 2)

\* the targetPeriod a double-tempo correction leaves
HalvedTarget(tp, p) == HalfPeriod(p)

\* recentPeriods.map(p => p / 2)
HalvedHistory(rp) == [i \in 1..Len(rp) |-> HalfPeriod(rp[i])]

\* the tracker after the on-grid / off-grid branch
GridStep(timestamp) ==
  LET tsp == timestamp * Scale - phase
      n   == NearestBeat(tsp, period)
      imp == ImpliedPeriod(tsp, n)
      p1  == AdaptPeriod(period, imp)
  IN  IF OnGrid(tsp, period)
      THEN IF ImpliedValid(tsp, n)
           THEN [event |-> "on_grid", onGrid |-> TRUE, adapted |-> TRUE,
                 period |-> p1,
                 targetPeriod |-> AdaptTarget(targetPeriod, p1),
                 phase |-> CorrectedPhase(timestamp, n,
                                          OffsetTimesPeriod(tsp, period),
                                          period, p1),
                 recentPeriods |-> PushPeriod(recentPeriods, imp),
                 confidence |-> ConfidenceAfterHit(confidence),
                 gridHits |-> gridHits + 1, gridMisses |-> gridMisses]
           ELSE [event |-> "on_grid", onGrid |-> TRUE, adapted |-> FALSE,
                 period |-> period, targetPeriod |-> targetPeriod,
                 phase |-> phase, recentPeriods |-> recentPeriods,
                 confidence |-> confidence,
                 gridHits |-> gridHits + 1, gridMisses |-> gridMisses]
      ELSE [event |-> "off_grid", onGrid |-> FALSE, adapted |-> FALSE,
            period |-> period, targetPeriod |-> targetPeriod,
            phase |-> phase, recentPeriods |-> recentPeriods,
            confidence |-> ConfidenceAfterMiss(confidence),
            gridHits |-> gridHits, gridMisses |-> gridMisses + 1]

\* mutant: the period is halved whatever the half is
CanHalveAlways(p) == TRUE

\* halfPeriod > C.MIN_PERIOD_MS
CanHalve(p) == HalfPeriod(p) > MIN_PERIOD_MS * Scale

\* the tracker after the double-tempo detection that follows the branch
TempoStep(timestamp) ==
  LET g   == GridStep(timestamp)
      tsp == timestamp * Scale - phase
  IN  IF /\ DoubleTempoDetected(tsp, period, g.gridHits, g.gridMisses)
         /\ CanHalve(g.period)
      THEN [g EXCEPT !.event = "double_tempo_correction",
                     !.period = HalfPeriod(g.period),
                     !.targetPeriod = HalvedTarget(g.targetPeriod, g.period),
                     !.recentPeriods = HalvedHistory(g.recentPeriods),
                     !.phase = timestamp * Scale,
                     !.gridHits = 0,
                     !.gridMisses = 0,
                     !.confidence = ConfidenceAfterCorrection(g.confidence)]
      ELSE g

\* Math.round(x * 100) / 100 of a 1/Scale ms value, in 1/100 ms
Round2(x) == IF x = Infinity THEN Infinity ELSE RoundDiv(x * 100, Scale)

\* mutant: the resume onset is appended to the onsets of before the silence
ResumedOnsetsKept(onsets, timestamp) == Append(onsets, timestamp)

\* calOnsets = [timestamp]
ResumedOnsets(onsets, timestamp) == <<timestamp>>

\* mutant: the resume onset also starts the hit and miss counts afresh
ResumeFromWaitingFresh(timestamp) ==
  /\ state = WAITING
  /\ calOnsets' = ResumedOnsets(calOnsets, timestamp)
  /\ state' = CALIBRATING
  /\ gridHits' = 0
  /\ gridMisses' = 0
  /\ UNCHANGED <<period, phase, targetPeriod, confidence, recentPeriods>>
  /\ traced' = <<[timestamp |-> timestamp, state |-> state',
                  event |-> "resume_from_waiting",
                  periodBefore |-> period, periodAfter |-> period',
                  targetPeriodBefore |-> targetPeriod,
                  targetPeriodAfter |-> targetPeriod',
                  confidence |-> confidence', onsetCount |-> onsetCount']>>
  /\ emitUpdate

\* ---- if (state === State.WAITING): start fresh calibration
ResumeFromWaiting(timestamp) ==
  /\ state = WAITING
  /\ calOnsets' = ResumedOnsets(calOnsets, timestamp)
  /\ state' = CALIBRATING
  /\ UNCHANGED <<period, phase, targetPeriod, confidence, gridHits,
                 gridMisses, recentPeriods>>
  /\ traced' = <<[timestamp |-> timestamp, state |-> state',
                  event |-> "resume_from_waiting",
                  periodBefore |-> period, periodAfter |-> period',
                  targetPeriodBefore |-> targetPeriod,
                  targetPeriodAfter |-> targetPeriod',
                  confidence |-> confidence', onsetCount |-> onsetCount']>>
  /\ emitUpdate

\* ---- calibration phase, fewer than CAL_BEATS + 1 onsets collected
CalibrationCollect(timestamp) ==
  /\ state = CALIBRATING
  /\ Len(calOnsets) + 1 < CAL_BEATS + 1
  /\ calOnsets' = Append(calOnsets, timestamp)
  /\ UNCHANGED <<period, phase, targetPeriod, confidence, state, gridHits,
                 gridMisses, recentPeriods>>
  /\ traced' = <<[timestamp |-> timestamp, state |-> state',
                  event |-> "calibrating", beatCount |-> Len(calOnsets'),
                  calibrationNeeded |-> CAL_BEATS,
                  onsetCount |-> onsetCount']>>
  /\ emitUpdate

\* mutant: a completed calibration is trusted as much as a supplied target
CalibratedConfidenceAsTarget == (7 * ConfScale) \div 10

\* confidence = 0.5
CalibratedConfidence == (5 * ConfScale) \div 10

\* mutant: calibration completes whatever the estimator returns
CalibrationAlwaysSucceeds(basePeriod) == TRUE

\* if (basePeriod > 0)
CalibrationSucceeds(basePeriod) == basePeriod > 0

\* mutant: a failed attempt throws the collected onsets away
CalibrationAttemptClearing(timestamp) ==
  /\ state = CALIBRATING
  /\ Len(calOnsets) + 1 >= CAL_BEATS + 1
  /\ Len(calOnsets) < MaxCal
  /\ LET collected  == Append(calOnsets, timestamp)
         basePeriod == findDominantPeriod(Intervals(collected))
     IN  IF CalibrationSucceeds(basePeriod)
         THEN /\ calOnsets' = collected
              /\ period' = basePeriod * Scale
              /\ targetPeriod' = basePeriod * Scale
              /\ phase' = timestamp * Scale
              /\ confidence' = CalibratedConfidence
              /\ recentPeriods' = <<basePeriod * Scale>>
              /\ state' = TRACKING
              /\ traced' = <<[timestamp |-> timestamp, state |-> state',
                              event |-> "calibration_complete",
                              basePeriod |-> basePeriod,
                              periodAfter |-> period',
                              targetPeriodAfter |-> targetPeriod',
                              drift |-> 0,
                              confidence |-> ConfidencePct(confidence'),
                              onsetCount |-> onsetCount']>>
         ELSE /\ calOnsets' = <<>>
              /\ UNCHANGED <<period, phase, targetPeriod, confidence,
                             recentPeriods, state>>
              /\ traced' = <<>>
  /\ UNCHANGED <<gridHits, gridMisses>>
  /\ emitUpdate

\* ---- calibration phase, the estimator runs
CalibrationAttempt(timestamp) ==
  /\ state = CALIBRATING
  /\ Len(calOnsets) + 1 >= CAL_BEATS + 1
  /\ Len(calOnsets) < MaxCal
  /\ calOnsets' = Append(calOnsets, timestamp)
  /\ LET basePeriod == findDominantPeriod(Intervals(calOnsets'))
     IN  IF CalibrationSucceeds(basePeriod)
         THEN /\ period' = basePeriod * Scale
              /\ targetPeriod' = basePeriod * Scale
              /\ phase' = timestamp * Scale
              /\ confidence' = CalibratedConfidence
              /\ recentPeriods' = <<basePeriod * Scale>>
              /\ state' = TRACKING
              /\ traced' = <<[timestamp |-> timestamp, state |-> state',
                              event |-> "calibration_complete",
                              basePeriod |-> basePeriod,
                              periodAfter |-> period',
                              targetPeriodAfter |-> targetPeriod',
                              drift |-> 0,
                              confidence |-> ConfidencePct(confidence'),
                              onsetCount |-> onsetCount']>>
         ELSE /\ UNCHANGED <<period, phase, targetPeriod, confidence,
                             recentPeriods, state>>
              /\ traced' = <<>>
  /\ UNCHANGED <<gridHits, gridMisses>>
  /\ emitUpdate

\* mutant: a double-tempo correction sends the tracker back to calibration
TrackOnsetRecalibrating(timestamp, maxHits) ==
  /\ state = TRACKING
  /\ period # 0
  /\ LET t   == TempoStep(timestamp)
         tsp == timestamp * Scale - phase
     IN  /\ t.gridHits <= maxHits
         /\ period' = t.period
         /\ targetPeriod' = t.targetPeriod
         /\ phase' = t.phase
         /\ recentPeriods' = t.recentPeriods
         /\ confidence' = t.confidence
         /\ gridHits' = t.gridHits
         /\ gridMisses' = t.gridMisses
         /\ traced' = <<[timestamp |-> timestamp, state |-> state,
                         event |-> t.event, onGrid |-> t.onGrid,
                         nearestBeat |-> NearestBeat(tsp, period),
                         offset |-> OffsetMilli(tsp, period),
                         periodBefore |-> Round2(period),
                         periodAfter |-> Round2(t.period),
                         targetPeriodBefore |-> Round2(targetPeriod),
                         targetPeriodAfter |-> Round2(t.targetPeriod),
                         confidence |-> ConfidencePct(t.confidence),
                         gridHits |-> t.gridHits,
                         gridMisses |-> t.gridMisses,
                         onsetCount |-> onsetCount']>>
  /\ UNCHANGED calOnsets
  /\ state' = IF TempoStep(timestamp).event = "double_tempo_correction"
               THEN CALIBRATING ELSE state
  /\ emitUpdate

\* ---- tracking phase (gridHits kept within maxHits)
TrackOnset(timestamp, maxHits) ==
  /\ state = TRACKING
  /\ period # 0
  /\ LET t   == TempoStep(timestamp)
         tsp == timestamp * Scale - phase
     IN  /\ t.gridHits <= maxHits
         /\ period' = t.period
         /\ targetPeriod' = t.targetPeriod
         /\ phase' = t.phase
         /\ recentPeriods' = t.recentPeriods
         /\ confidence' = t.confidence
         /\ gridHits' = t.gridHits
         /\ gridMisses' = t.gridMisses
         /\ traced' = <<[timestamp |-> timestamp, state |-> state,
                         event |-> t.event, onGrid |-> t.onGrid,
                         nearestBeat |-> NearestBeat(tsp, period),
                         offset |-> OffsetMilli(tsp, period),
                         periodBefore |-> Round2(period),
                         periodAfter |-> Round2(t.period),
                         targetPeriodBefore |-> Round2(targetPeriod),
                         targetPeriodAfter |-> Round2(t.targetPeriod),
                         confidence |-> ConfidencePct(t.confidence),
                         gridHits |-> t.gridHits,
                         gridMisses |-> t.gridMisses,
                         onsetCount |-> onsetCount']>>
  /\ UNCHANGED <<calOnsets, state>>
  /\ emitUpdate

\* ---- if (state !== State.TRACKING || period === 0) return
IgnoreOnset(timestamp) ==
  /\ state = IDLE \/ (state = TRACKING /\ period = 0)
  /\ UNCHANGED <<period, phase, targetPeriod, confidence, calOnsets, state,
                 gridHits, gridMisses, recentPeriods>>
  /\ traced' = <<>>
  /\ noUpdate

\* addOnset(timestamp), the clock reading timestamp = now + gap
\* (the clock kept within maxTime, onsetCount within maxOnsets)
AddOnsetWithin(gap, maxTime, maxOnsets, maxHits) ==
  LET timestamp == now + gap
  IN  /\ timestamp <= maxTime
      /\ onsetCount < maxOnsets
      /\ op' = "addOnset"
      /\ arg' = timestamp
      /\ now' = timestamp
      /\ lastOnsetTime' = timestamp
      /\ onsetCount' = onsetCount + 1
      /\ UNCHANGED <<silenceCheckInterval, timers, estimator, recorder>>
      /\ \/ ResumeFromWaiting(timestamp)
         \/ CalibrationCollect(timestamp)
         \/ CalibrationAttempt(timestamp)
         \/ TrackOnset(timestamp, maxHits)
         \/ IgnoreOnset(timestamp)

AddOnset(gap) == AddOnsetWithin(gap, MaxTime, MaxOnsets, MaxHits)

\* ------------------------------------------------------------ specification
\* createTraceBuffer(maxSize = 1000)
DefaultMaxSize == 1000

\* createTraceBuffer(size): const entries = []
createTraceBuffer(size) ==
  /\ maxSize = size
  /\ entries = <<>>
  /\ added = 0
  /\ fetched = <<>>

\* createBeatTracker(): the tracker as constructed
createBeatTracker ==
  /\ period = 0
  /\ phase = 0
  /\ targetPeriod = 0
  /\ confidence = 0
  /\ calOnsets = <<>>
  /\ state = IDLE
  /\ onsetCount = 0
  /\ gridHits = 0
  /\ gridMisses = 0
  /\ recentPeriods = <<>>
  /\ lastOnsetTime = 0
  /\ silenceCheckInterval = FALSE
  /\ timers = 0
  /\ now = 0
  /\ op = "create"
  /\ arg = 0
  /\ updates = <<>>
  /\ traced = <<>>
  /\ sample = <<>>
  /\ dominant = 0

Init == createBeatTracker /\ createTraceBuffer(DefaultMaxSize)

Next ==
  \/ Reset
  \/ \E gap \in OnsetGaps : AddOnset(gap)
  \/ \E bpm \in Bpms : SetTarget(bpm)
  \/ StartSilenceWatch
  \/ StopSilenceWatch
  \/ Destroy
  \/ \E gap \in TickGaps : Tick(gap)

Spec == Init /\ [][Next]_vars

\* ---- a long session at a tempo whose grid cannot be halved: setTarget(150)
\* gives period 400 ms, half of which is not above MIN_PERIOD_MS
SteadyTime == 400
SteadyOnsets == 38
SteadyHits == 7
SteadyGaps == {0, 200}
SteadyBpms == {150}

NextSteady ==
  \/ \E gap \in SteadyGaps : AddOnsetWithin(gap, SteadyTime, SteadyOnsets, SteadyHits)
  \/ \E bpm \in SteadyBpms : SetTarget(bpm)
  \/ Reset

SpecSteady == Init /\ [][NextSteady]_vars

\* ---- sessions in which setTarget is handed any number: a negative bpm, 0,
\* a bpm whose period is not a whole number of ms, and Infinity
TargetOnsets == 3
TargetBpms == {-50, 0, 70, 360, Infinity}

NextTarget ==
  \/ \E bpm \in TargetBpms : SetTarget(bpm)
  \/ \E gap \in OnsetGaps : AddOnsetWithin(gap, MaxTime, TargetOnsets, MaxHits)
  \/ Reset
  \/ StartSilenceWatch
  \/ StopSilenceWatch
  \/ \E gap \in TickGaps : Tick(gap)

SpecTarget == Init /\ [][NextTarget]_vars

\* ---- the estimator on its own: findDominantPeriod is handed interval lists
\* that grow by one interval at a time
MaxSample == 6
SampleIntervals == {150, 250, 500, 1000, 1500, 2000}

Estimate(iv) ==
  /\ Len(sample) < MaxSample
  /\ sample' = Append(sample, iv)
  /\ dominant' = findDominantPeriod(sample')
  /\ UNCHANGED <<period, phase, targetPeriod, confidence, calOnsets, state,
                 onsetCount, gridHits, gridMisses, recentPeriods,
                 lastOnsetTime, silenceCheckInterval, timers, now, op, arg,
                 updates, traced, recorder>>

NextEstimator == \E iv \in SampleIntervals : Estimate(iv)

SpecEstimator == Init /\ [][NextEstimator]_vars

\* ---- the perfect-tempo scenario: reset(), then onsets a constant interval
\* apart, through calibration and PerfectHits tracking beats
PerfectHits == 20
PerfectOnsets == 29
PerfectTime == 46400
PerfectPeriods == {250, 500, 750, 1000, 1600}

\* runScenario: tracker.reset() on the tracker just created
ScenarioReset == state = IDLE /\ Reset

\* the interval of the scenario is that of its first two onsets
Isochronous(gap) ==
  IF Len(calOnsets) < 2 THEN TRUE ELSE gap = calOnsets[2] - calOnsets[1]

\* runScenario: tracker.addOnset(timestamp) for the next generated onset
PerfectOnset(gap) ==
  /\ state # IDLE
  /\ Isochronous(gap)
  /\ AddOnsetWithin(gap, PerfectTime, PerfectOnsets, PerfectHits)

NextPerfect ==
  \/ ScenarioReset
  \/ \E gap \in PerfectPeriods : PerfectOnset(gap)

SpecPerfect == Init /\ [][NextPerfect]_vars

\* ---- onsets that slip against a fast grid: setTarget(150) sets a 400 ms
\* period, which cannot be halved until a late hit has stretched it
SlipTime == 700
SlipOnsets == 26
SlipHits == 2
SlipGaps == {0, 200, 300}
SlipBpms == {150}

NextSlip ==
  \/ \E bpm \in SlipBpms : SetTarget(bpm)
  \/ \E gap \in SlipGaps : AddOnsetWithin(gap, SlipTime, SlipOnsets, SlipHits)

SpecSlip == Init /\ [][NextSlip]_vars

\* ---- no setTarget: reset(), a calibration on onsets a constant interval
\* apart, then onsets that hit, stretch, shrink and miss the calibrated grid,
\* with the watchdog polling
RangeTime == 6600
RangeOnsets == 18
RangeHits == 3
CalGaps == {210, 420}
TrackGaps == {0, 105, 205}
RangeTickGaps == {0, 4500}

\* addOnset(timestamp) while the calibration buffer is filled
CalibrationOnset(gap) ==
  /\ state \in {CALIBRATING, WAITING}
  /\ Isochronous(gap)
  /\ AddOnsetWithin(gap, RangeTime, RangeOnsets, RangeHits)

\* addOnset(timestamp) on the calibrated grid
GridOnset(gap) ==
  /\ state = TRACKING
  /\ AddOnsetWithin(gap, RangeTime, RangeOnsets, RangeHits)

\* reset() on the tracker just created, or after a silence
RestartReset == state \in {IDLE, WAITING} /\ Reset

NextRange ==
  \/ RestartReset
  \/ \E gap \in CalGaps : CalibrationOnset(gap)
  \/ \E gap \in TrackGaps : GridOnset(gap)
  \/ StartSilenceWatch
  \/ \E gap \in RangeTickGaps : TickWithin(gap, RangeTime)

SpecRange == Init /\ [][NextRange]_vars

\* ---- the trace buffer on its own: add, getAll, getLast and clear in any
\* order on a buffer of any small capacity
MaxAdds == 5
MaxLast == 4
TraceSizes == 0..3

\* Array.prototype.slice(start) of s: a negative start counts from the end,
\* -0 is 0
Slice(s, start) ==
  LET k == IF start < 0 THEN Max(Len(s) + start, 0) ELSE Min(start, Len(s))
  IN  SubSeq(s, k + 1, Len(s))

\* entries.push({ ...entry, _index: entries.length })
Pushed(s, entry) == Append(s, [entry |-> entry, _index |-> Len(s)])

\* mutant: the newest record is dropped when the buffer is over capacity
EvictedNewest(s, size) == IF Len(s) > size THEN SubSeq(s, 1, Len(s) - 1) ELSE s

\* if (entries.length > maxSize) entries.shift()
Evicted(s, size) == IF Len(s) > size THEN Tail(s) ELSE s

\* add(entry); the k-th record added since the last clear carries k
TraceAdd ==
  /\ added < MaxAdds
  /\ op' = "add"
  /\ arg' = added + 1
  /\ added' = added + 1
  /\ entries' = Evicted(Pushed(entries, added + 1), maxSize)
  /\ UNCHANGED <<maxSize, fetched, tracker, silenceCheckInterval, timers, now,
                 updates, traced, estimator>>

\* getAll(): [...entries]
TraceGetAll ==
  /\ op' = "getAll"
  /\ arg' = 0
  /\ fetched' = entries
  /\ UNCHANGED <<maxSize, entries, added, tracker, silenceCheckInterval,
                 timers, now, updates, traced, estimator>>

\* getLast(n): entries.slice(-n)
TraceGetLast(n) ==
  /\ op' = "getLast"
  /\ arg' = n
  /\ fetched' = Slice(entries, 0 - n)
  /\ UNCHANGED <<maxSize, entries, added, tracker, silenceCheckInterval,
                 timers, now, updates, traced, estimator>>

\* clear(): entries.length = 0
TraceClear ==
  /\ op' = "clear"
  /\ arg' = 0
  /\ entries' = <<>>
  /\ added' = 0
  /\ UNCHANGED <<maxSize, fetched, tracker, silenceCheckInterval, timers, now,
                 updates, traced, estimator>>

InitTrace == createBeatTracker /\ \E size \in TraceSizes : createTraceBuffer(size)

NextTrace ==
  \/ TraceAdd
  \/ TraceGetAll
  \/ \E n \in 0..MaxLast : TraceGetLast(n)
  \/ TraceClear

SpecTrace == InitTrace /\ [][NextTrace]_vars

\* ================================================================== claims
\* the last call was addOnset and ran the grid-position procedure
Tracked == op = "addOnset" /\ traced # <<>> /\ state = TRACKING
           /\ traced[1].event \in {"on_grid", "off_grid", "double_tempo_correction"}

\* the step is a call of the named operation (startSilenceWatch and
\* stopSilenceWatch leave op as it was and at most switch the timer)
Called(name) ==
  /\ op' = name
  /\ silenceCheckInterval' = silenceCheckInterval
  /\ vars' # vars

\* a step that is an addOnset call made while TRACKING (period defined)
TrackingStep == state = TRACKING /\ period # 0 /\ Called("addOnset")

\* C1: the target tempo is fixed during tracking: an addOnset call made while
\* TRACKING that is an on-grid hit never changes targetPeriod.
C1_TargetFixedOnGridHit ==
  [][(TrackingStep /\ traced'[1].onGrid) => targetPeriod' = targetPeriod]_vars

\* C2: after any sequence of reset, addOnset and setTarget, however long,
\* internal confidence satisfies 0 <= confidence <= 1 and the confidence
\* field of every emitted Update lies in [0,100].
C2_ConfidenceBounds ==
  /\ 0 <= confidence
  /\ confidence <= ConfScale
  /\ \A i \in 1..Len(updates) : updates[i].confidence \in 0..100

\* C2 witness: more off-grid onsets than the 0.02 decrements that fit into
\* the 0.7 set by setTarget have left confidence at its floor
C2_Witness ==
  /\ op = "addOnset"
  /\ state = TRACKING
  /\ gridMisses > 35
  /\ confidence = 0
  /\ updates # <<>>
  /\ updates[1].confidence = 0

\* C3: WAITING is entered only by a watchdog tick and only from TRACKING or
\* CALIBRATING; a tick in IDLE or in WAITING changes nothing and emits no
\* Update; no addOnset, reset or setTarget call results in state WAITING.
C3_WaitingOnlyByWatchdog ==
  [][/\ (state' = WAITING /\ state # WAITING)
          => (Called("tick") /\ state \in {TRACKING, CALIBRATING})
     /\ (Called("tick") /\ state \in {IDLE, WAITING})
          => (UNCHANGED tracker /\ updates' = <<>>)
     /\ (\E name \in {"addOnset", "reset", "setTarget"} : Called(name)) => state' # WAITING]_vars

\* C3 witness: a tick found the tracker WAITING and did nothing
C3_Witness == op = "tick" /\ state = WAITING /\ updates = <<>>

\* C4 as stated: every tick at which state is TRACKING or CALIBRATING and more
\* than SILENCE_TIMEOUT_MS have passed since lastOnsetTime forces WAITING,
\* also when lastOnsetTime is 0.
C4_SilenceAlwaysForcesWaiting ==
  [][(/\ Called("tick")
      /\ state \in {TRACKING, CALIBRATING}
      /\ now' - lastOnsetTime > SILENCE_TIMEOUT_MS) => state' = WAITING]_vars

\* C4 amended: such a tick forces WAITING when lastOnsetTime > 0; when
\* lastOnsetTime is 0 (no onset yet, or the last onset carried timestamp 0)
\* the tick leaves the tracker as it is.
C4_SilenceForcesWaitingAfterOnset ==
  [][(/\ Called("tick")
      /\ state \in {TRACKING, CALIBRATING}
      /\ now' - lastOnsetTime > SILENCE_TIMEOUT_MS)
       => IF lastOnsetTime > 0
          THEN state' = WAITING /\ confidence' = 0 /\ Len(updates') = 1
          ELSE UNCHANGED tracker /\ updates' = <<>>]_vars

\* C4 witness: the watchdog has just forced WAITING
C4_Witness == op = "tick" /\ state = WAITING /\ Len(updates) = 1
              /\ now - lastOnsetTime > SILENCE_TIMEOUT_MS

\* C5: the first addOnset(t) in WAITING moves the tracker to CALIBRATING with
\* calOnsets = [t]; while CALIBRATING every onset is appended to calOnsets, and
\* TRACKING is re-entered by an onset only with CAL_BEATS + 1 collected.
C5_ResumeRestartsCalibration ==
  [][/\ (state = WAITING /\ Called("addOnset"))
          => (state' = CALIBRATING /\ calOnsets' = <<now'>>)
     /\ (state = CALIBRATING /\ Called("addOnset"))
          => /\ calOnsets' = Append(calOnsets, now')
             /\ state' = TRACKING => Len(calOnsets') >= CAL_BEATS + 1]_vars

\* C5 witness: a calibration restarted by an onset after WAITING completes
\* (one counted onset, the one before the silence, is not in calOnsets)
C5_Witness ==
  /\ op = "addOnset" /\ state = TRACKING
  /\ traced # <<>> /\ traced[1].event = "calibration_complete"
  /\ Len(calOnsets) = CAL_BEATS + 1
  /\ onsetCount = CAL_BEATS + 2
  /\ calOnsets[1] > SILENCE_TIMEOUT_MS

\* C6: resuming from WAITING discards the prior tempo: after the resume onset
\* period and targetPeriod are 0 and the Update reports no currentBpm/targetBpm.
C6_ResumeDiscardsTempo ==
  [][(state = WAITING /\ Called("addOnset"))
       => /\ period' = 0 /\ targetPeriod' = 0
          /\ updates'[1].currentBpm = NoBpm
          /\ updates'[1].targetBpm = NoBpm]_vars

\* the double-tempo condition holds for the onset at now' (an off-grid onset,
\* counted in gridMisses before the test)
DoubleTempoCondition ==
  /\ TrackingStep
  /\ DoubleTempoDetected(now' * Scale - phase, period, gridHits, gridMisses + 1)

\* C7: when the double-tempo condition fires with period/2 > MIN_PERIOD_MS,
\* the new period is half the old period and the new targetPeriod is half the
\* old targetPeriod, every entry of recentPeriods is halved, phase = timestamp,
\* gridHits = gridMisses = 0 and confidence = max(0.3, confidence - 0.2); with
\* period/2 <= MIN_PERIOD_MS none of period, targetPeriod, recentPeriods and
\* phase change.
C7_CorrectionHalvesBoth ==
  [][DoubleTempoCondition
       => IF HalfPeriod(period) > MIN_PERIOD_MS * Scale
          THEN /\ period' = HalfPeriod(period)
               /\ targetPeriod' = HalfPeriod(targetPeriod)
               /\ recentPeriods' = HalvedHistory(recentPeriods)
               /\ phase' = now' * Scale
               /\ gridHits' = 0 /\ gridMisses' = 0
               /\ confidence' = ConfidenceAfterCorrection(
                                   ConfidenceAfterMiss(confidence))
          ELSE UNCHANGED <<period, targetPeriod, recentPeriods, phase>>]_vars

\* C8: double-tempo correction is one-shot: no on-grid onset causes a halving;
\* a correction needs gridMisses > 6 counting the onset that triggers it and
\* zeroes gridMisses; gridMisses grows only by one per off-grid onset.
C8_CorrectionOneShot ==
  [][/\ (TrackingStep /\ traced'[1].onGrid)
          => (traced'[1].event = "on_grid" /\ 2 * period' > period)
     /\ (TrackingStep /\ traced'[1].event = "double_tempo_correction")
          => (gridMisses >= 6 /\ gridMisses' = 0 /\ gridHits' = 0)
     /\ \/ gridMisses' = gridMisses
        \/ gridMisses' = 0
        \/ /\ gridMisses' = gridMisses + 1
           /\ TrackingStep /\ ~traced'[1].onGrid]_vars

\* C8 witness: after a correction of the grid set by setTarget, an on-grid
\* onset was processed and did not halve again
C8_Witness ==
  /\ Tracked /\ traced[1].event = "on_grid"
  /\ calOnsets = FabricatedOnsets
  /\ 3 * period < 2 * PeriodOfBpm(50)
  /\ 3 * period > PeriodOfBpm(50)

C10_BufferOnlyWhileCalibrating ==
  calOnsets # <<>> => state = CALIBRATING

\* C10 amended: calOnsets is empty in IDLE and is kept, with at least
\* CAL_BEATS + 1 entries, throughout TRACKING.
C10_BufferKeptWhileTracking ==
  /\ state = IDLE => calOnsets = <<>>
  /\ state = TRACKING => Len(calOnsets) >= CAL_BEATS + 1

\* C10 witness: calibration has just completed and the buffer is still held
C10_Witness ==
  /\ op = "addOnset" /\ state = TRACKING
  /\ traced # <<>> /\ traced[1].event = "calibration_complete"
  /\ Len(calOnsets) = CAL_BEATS + 1

\* C11: across any single step (addOnset, setTarget, watchdog tick, stop or
\* destroy) gridHits + gridMisses does not decrease, except in a step that is
\* reset() or that performs a double-tempo correction; both of those leave
\* gridHits = gridMisses = 0.
C11_CountsOnlyDropOnResetOrCorrection ==
  [][/\ (gridHits' + gridMisses' < gridHits + gridMisses)
          => \/ Called("reset")
             \/ TrackingStep /\ traced'[1].event = "double_tempo_correction"
     /\ (\/ Called("reset")
         \/ TrackingStep /\ traced'[1].event = "double_tempo_correction")
          => (gridHits' = 0 /\ gridMisses' = 0)]_vars

\* C11 witness: counts built up while tracking survived a silence and the
\* onset that resumed calibration after it
C11_Witness ==
  /\ op = "addOnset"
  /\ traced # <<>> /\ traced[1].event = "resume_from_waiting"
  /\ gridHits + gridMisses > 0

\* the step is a setTarget call whose argument is positive and finite
ValidTargetStep == Called("setTarget") /\ arg' > 0 /\ arg' # Infinity

\* the step is a setTarget call whose argument is not
InvalidTargetStep == Called("setTarget") /\ (arg' <= 0 \/ arg' = Infinity)

\* C12: setTarget(bpm) with a non-positive or non-finite bpm is rejected and
\* leaves state, period, targetPeriod, phase, confidence and calOnsets
\* unchanged; it never puts the tracker in TRACKING with a non-positive or
\* infinite period.
C12_InvalidTargetRejected ==
  [][InvalidTargetStep
       => /\ UNCHANGED <<state, period, targetPeriod, phase, confidence,
                         calOnsets>>
          /\ ~(state' = TRACKING /\ (period' <= 0 \/ period' = Infinity))]_vars

\* C13: from any state, setTarget(bpm) with positive finite bpm yields
\* state = TRACKING, period = targetPeriod = 60000/bpm (to the nearest unit),
\* confidence = 0.7 and a calibration buffer of exactly CAL_BEATS + 1 entries,
\* emits exactly one Update, and leaves gridHits, gridMisses, onsetCount and
\* recentPeriods unchanged.
C13_TargetForcesTracking ==
  [][ValidTargetStep
       => /\ state' = TRACKING
          /\ period' = targetPeriod'
          /\ 2 * Abs(period' * arg' - 60000 * Scale) <= arg'
          /\ 10 * confidence' = 7 * ConfScale
          /\ Len(calOnsets') = CAL_BEATS + 1
          /\ Len(updates') = 1
          /\ updates'[1].state = TRACKING
          /\ UNCHANGED <<gridHits, gridMisses, onsetCount, recentPeriods>>]_vars

\* C13 witness: setTarget(70) was called after a silence had put the tracker
\* in WAITING, with a grid hit counted before; 60000/70 is no whole number
C13_Witness ==
  /\ op = "setTarget" /\ arg = 70
  /\ state = TRACKING
  /\ period = 857143
  /\ gridHits > 0
  /\ lastOnsetTime > 0
  /\ now - lastOnsetTime > SILENCE_TIMEOUT_MS

\* C14: after setTarget(bpm) tracking resumes without re-collecting onsets:
\* a watchdog tick that comes no later than SILENCE_TIMEOUT_MS after the call
\* (phase holds the time of the call) leaves the tracker in TRACKING, and the
\* onset that follows the call is processed by the grid-position procedure.
C14_TargetResumesTracking ==
  [][/\ (/\ op = "setTarget" /\ state = TRACKING
         /\ Called("tick")
         /\ now' * Scale - phase <= SILENCE_TIMEOUT_MS * Scale)
          => state' = TRACKING
     /\ (op = "setTarget" /\ state = TRACKING /\ Called("addOnset"))
          => /\ state' = TRACKING
             /\ traced' # <<>>
             /\ traced'[1].event \in {"on_grid", "off_grid",
                                      "double_tempo_correction"}]_vars

\* a step that is an addOnset call made while CALIBRATING
CalibratingStep == state = CALIBRATING /\ Called("addOnset")

\* some interval of the onsets lies strictly between MIN_PERIOD_MS and 2000 ms
HasUsableInterval(onsets) ==
  \E i \in 1..(Len(onsets) - 1) :
    /\ onsets[i + 1] - onsets[i] > MIN_PERIOD_MS
    /\ onsets[i + 1] - onsets[i] < 2000

\* C15: while calibrating, every onset that leaves fewer than CAL_BEATS + 1
\* onsets collected keeps state CALIBRATING with period, targetPeriod, phase
\* and confidence unchanged; on the (CAL_BEATS + 1)th collected onset, if the
\* estimator returns basePeriod > 0, period = targetPeriod = basePeriod,
\* phase = that onset's timestamp, confidence = 0.5, recentPeriods =
\* [basePeriod] and state = TRACKING.  addOnset never reaches TRACKING with
\* fewer than CAL_BEATS + 1 collected onsets.
C15_CalibrationCompletes ==
  [][/\ (CalibratingStep /\ Len(calOnsets) + 1 < CAL_BEATS + 1)
          => /\ state' = CALIBRATING
             /\ UNCHANGED <<period, targetPeriod, phase, confidence>>
     /\ (/\ CalibratingStep /\ Len(calOnsets) + 1 = CAL_BEATS + 1
         /\ findDominantPeriod(Intervals(Append(calOnsets, now'))) > 0)
          => LET basePeriod ==
                   findDominantPeriod(Intervals(Append(calOnsets, now')))
             IN  /\ period' = basePeriod * Scale
                 /\ targetPeriod' = basePeriod * Scale
                 /\ phase' = now' * Scale
                 /\ 2 * confidence' = ConfScale
                 /\ recentPeriods' = <<basePeriod * Scale>>
                 /\ state' = TRACKING
     /\ (Called("addOnset") /\ state # TRACKING /\ state' = TRACKING)
          => (state = CALIBRATING /\ Len(calOnsets') >= CAL_BEATS + 1)]_vars

\* C15 witness: the ninth onset after reset completed calibration at 500 ms
C15_Witness ==
  /\ op = "addOnset" /\ state = TRACKING
  /\ traced # <<>> /\ traced[1].event = "calibration_complete"
  /\ onsetCount = CAL_BEATS + 1
  /\ Len(calOnsets) = CAL_BEATS + 1
  /\ period = 500 * Scale /\ targetPeriod = period
  /\ phase = now * Scale
  /\ recentPeriods = <<period>>

\* C16: with at least CAL_BEATS + 1 onsets collected and no consecutive
\* interval of calOnsets strictly between MIN_PERIOD_MS and 2000 ms, addOnset
\* keeps state CALIBRATING, leaves period, targetPeriod, phase and confidence
\* unchanged and keeps calOnsets; each later onset re-attempts over the whole
\* accumulated buffer, and calibration completes at the first onset after
\* which some accumulated interval is in that range.
C16_FailedCalibrationRetries ==
  [][(CalibratingStep /\ Len(calOnsets) + 1 >= CAL_BEATS + 1)
       => /\ calOnsets' = Append(calOnsets, now')
          /\ Len(updates') = 1
          /\ IF HasUsableInterval(calOnsets')
             THEN state' = TRACKING /\ period' > 0
             ELSE /\ state' = CALIBRATING
                  /\ UNCHANGED <<period, targetPeriod, phase,
                                 confidence>>]_vars

\* C16 witness: nine onsets with no usable interval were collected, and the
\* tenth, the first to bring one, completed calibration over all ten
C16_Witness ==
  /\ op = "addOnset" /\ state = TRACKING
  /\ traced # <<>> /\ traced[1].event = "calibration_complete"
  /\ Len(calOnsets) = CAL_BEATS + 2
  /\ ~HasUsableInterval(SubSeq(calOnsets, 1, CAL_BEATS + 1))

\* the number of intervals of the sample equal to v
CountOf(v) == Cardinality({i \in 1..Len(sample) : sample[i] = v})

\* a strict majority of the sample equals p and the rest is 2p, 3p or 4p
MissedBeatSample(p) ==
  /\ p > MIN_PERIOD_MS
  /\ 2 * CountOf(p) > Len(sample)
  /\ \A i \in 1..Len(sample) :
       /\ sample[i] \in {p, 2 * p, 3 * p, 4 * p}
       /\ sample[i] < 2000

\* C17: for every interval list in which a strict majority of intervals equal
\* a base period p > MIN_PERIOD_MS and all others are 2p, 3p or 4p (each below
\* 2000 ms), findDominantPeriod returns exactly p; [500,500,500,1000,500,500]
\* yields 500.  For any input the result is 0 or one of the input intervals
\* lying strictly between MIN_PERIOD_MS and 2000.
C17_EstimatorFindsBasePeriod ==
  /\ \A p \in SampleIntervals : MissedBeatSample(p) => dominant = p
  /\ sample = <<500, 500, 500, 1000, 500, 500>> => dominant = 500
  /\ \/ dominant = 0
     \/ /\ \E i \in 1..Len(sample) : sample[i] = dominant
        /\ dominant > MIN_PERIOD_MS
        /\ dominant < 2000

\* C17 witness: the estimator was handed the list with one missed beat
C17_Witness ==
  /\ sample = <<500, 500, 500, 1000, 500, 500>>
  /\ dominant = 500

\* C18: in a perfectly isochronous onset sequence at a tempo calibration
\* accepts, after calibration every further onset is an on-grid hit that
\* leaves period = targetPeriod unchanged with drift 0, gridMisses stays 0, and
\* confidence rises by 0.05 per onset until it is 1, which it is after 20
\* tracking beats.
C18_PerfectTempoLocks ==
  [][TrackingStep
       => /\ traced'[1].onGrid
          /\ period' = period
          /\ targetPeriod' = period'
          /\ updates'[1].drift = 0
          /\ gridMisses' = 0
          /\ confidence' = Min(ConfScale, confidence + (5 * ConfScale) \div 100)
          /\ gridHits' >= PerfectHits => confidence' = ConfScale]_vars

\* C19: once the tracker is TRACKING no addOnset call changes the state,
\* whatever the onset (missed beat, duplicate, off-grid, double-tempo
\* correction); only a watchdog tick (to WAITING) or reset() (to CALIBRATING)
\* leaves TRACKING.
C19_OnsetsKeepTracking ==
  [][/\ (state = TRACKING /\ Called("addOnset")) => state' = TRACKING
     /\ (state = TRACKING /\ state' # TRACKING)
          => \/ Called("tick") /\ state' = WAITING
             \/ Called("reset") /\ state' = CALIBRATING]_vars

\* C19 witness: a double-tempo correction has just been made on the grid
\* set by setTarget, and the tracker is still TRACKING
C19_Witness ==
  /\ op = "addOnset" /\ state = TRACKING
  /\ traced # <<>> /\ traced[1].event = "double_tempo_correction"
  /\ gridHits = 0 /\ gridMisses = 0
  /\ 2 * period < PeriodOfBpm(50)

\* the step handed onUpdate exactly one Update, built from the state it leaves
EmitsOnce ==
  updates' = <<Update(state', period', targetPeriod', confidence', calOnsets',
                      gridHits', gridMisses')>>

\* C20: every addOnset call made while state is WAITING, CALIBRATING or
\* TRACKING invokes onUpdate exactly once, after all state mutations of the
\* call; so does every reset() and setTarget() call and every watchdog tick
\* that changes the state.
C20_EveryOnsetEmitsOnce ==
  [][/\ (Called("addOnset") /\ state \in {WAITING, CALIBRATING, TRACKING})
          => EmitsOnce
     /\ (Called("reset") \/ Called("setTarget")) => EmitsOnce
     /\ (Called("tick") /\ state' # state) => EmitsOnce]_vars

\* C21: every addOnset call made in a state other than IDLE hands exactly one
\* record to the trace recorder, a call whose calibration attempt fails
\* because findDominantPeriod returns 0 included.
C21_EveryOnsetTraced ==
  [][(Called("addOnset") /\ state # IDLE) => Len(traced') = 1]_vars

\* C22: on a trace buffer created with capacity maxSize, after any sequence
\* of add and clear calls, length <= maxSize and the buffer holds exactly the
\* most recent min(adds since the last clear, maxSize) records, oldest first.
C22_BufferHoldsMostRecent ==
  LET k == Min(added, maxSize)
  IN  /\ Len(entries) <= maxSize
      /\ Len(entries) = k
      /\ \A i \in 1..k : entries[i].entry = added - k + i

\* C22 witness: a full buffer of capacity 2 or more has evicted its oldest
\* records on the last add calls
C22_Witness ==
  /\ op = "add" /\ maxSize >= 2
  /\ added > maxSize + 1
  /\ Len(entries) = maxSize
  /\ entries[1].entry = added - maxSize + 1

\* the min(n, length) most recent records of s, oldest first
LastRecords(s, n) == SubSeq(s, Len(s) - Min(n, Len(s)) + 1, Len(s))

\* C23: for every n >= 0, getLast(n) returns exactly the min(n, length) most
\* recent records in insertion order (none for n = 0), getAll() returns all
\* records, neither changes the buffer, and clear() leaves it empty.
C23_ReadAccessors ==
  [][/\ Called("getLast")
          => fetched' = LastRecords(entries, arg') /\ entries' = entries
     /\ Called("getAll") => fetched' = entries /\ entries' = entries
     /\ Called("clear") => entries' = <<>>]_vars

\* C24: startSilenceWatch and stopSilenceWatch / destroy may be called any
\* number of times in any order: at most one interval timer is set at any
\* time, a call that sets or clears the timer changes nothing of the tracker
\* and emits nothing, and the watchdog forces WAITING only while the timer
\* set by the last startSilenceWatch has not been cleared.
C24_WatchdogLifecycle ==
  [][/\ timers <= 1 /\ timers' <= 1
     /\ (timers' = 1) <=> silenceCheckInterval'
     /\ (silenceCheckInterval' # silenceCheckInterval \/ timers' # timers)
          => UNCHANGED <<tracker, now, op, arg, updates, traced>>
     /\ (state' = WAITING /\ state # WAITING)
          => silenceCheckInterval /\ Called("tick")]_vars

\* C24 witness: the watchdog has polled a TRACKING tracker and has then been
\* stopped; the tracker is as the last onset left it
C24_Witness ==
  /\ op = "tick" /\ silenceCheckInterval = FALSE /\ timers = 0
  /\ state = TRACKING /\ gridHits > 0 /\ confidence > 0
  /\ lastOnsetTime > 0

\* C25: the transition to WAITING forced by the watchdog sets confidence to
\* 0 and emits one Update, and leaves period, targetPeriod, phase, calOnsets,
\* recentPeriods, onsetCount, gridHits, gridMisses and lastOnsetTime as they
\* were.
C25_EnterWaitingFrame ==
  [][(Called("tick") /\ state' = WAITING /\ state # WAITING)
        => /\ confidence' = 0
           /\ Len(updates') = 1
           /\ updates'[1].state = WAITING /\ updates'[1].confidence = 0
           /\ UNCHANGED <<period, targetPeriod, phase, calOnsets,
                          recentPeriods, onsetCount, gridHits, gridMisses,
                          lastOnsetTime>>]_vars

\* C25 witness: the watchdog has just forced WAITING on a tracker that had a
\* period, a period history and both kinds of grid count
C25_Witness ==
  /\ op = "tick" /\ state = WAITING /\ confidence = 0
  /\ Len(updates) = 1 /\ updates[1].state = WAITING
  /\ period > 0 /\ recentPeriods # <<>>
  /\ gridHits > 0 /\ gridMisses > 0

\* the onset of the step is off the grid the tracker holds
OffGridOnset == ~OnGrid(now' * Scale - phase, period)

\* the onset of the step, being the miss it is, triggers the double-tempo
\* correction
CorrectionFires ==
  /\ DoubleTempoDetected(now' * Scale - phase, period, gridHits,
                         gridMisses + 1)
  /\ HalfPeriod(period) > MIN_PERIOD_MS * Scale

\* C26: every off-grid onset in TRACKING (|offset| >= GRID_TOLERANCE)
\* increments gridMisses, sets confidence = max(0, confidence - 0.02) and
\* leaves period, phase and targetPeriod as they were.
C26_OffGridNeverAdjusts ==
  [][(TrackingStep /\ OffGridOnset)
        => /\ gridMisses' = gridMisses + 1
           /\ confidence' = Max(0, confidence - (2 * ConfScale) \div 100)
           /\ UNCHANGED <<period, phase, targetPeriod>>]_vars

\* C26 amended: an off-grid onset in TRACKING that does not trigger the
\* double-tempo correction increments gridMisses, sets confidence =
\* max(0, confidence - 0.02) and leaves period, phase, targetPeriod, gridHits
\* and recentPeriods as they were; one that triggers it halves the period and
\* moves the phase to the onset.
C26_OffGridWithoutCorrection ==
  [][/\ (TrackingStep /\ OffGridOnset /\ ~CorrectionFires)
          => /\ gridMisses' = gridMisses + 1
             /\ confidence' = Max(0, confidence - (2 * ConfScale) \div 100)
             /\ UNCHANGED <<period, phase, targetPeriod, gridHits,
                            recentPeriods>>
     /\ (TrackingStep /\ OffGridOnset /\ CorrectionFires)
          => /\ period' = HalfPeriod(period)
             /\ phase' = now' * Scale
             /\ gridMisses' = 0]_vars

\* C26 witness: a miss has just been counted without a correction, on a grid
\* that has been hit and missed before and could be halved
C26_Witness ==
  /\ Tracked /\ traced[1].event = "off_grid"
  /\ gridMisses >= 3 /\ gridHits >= 1
  /\ period > 2 * MIN_PERIOD_MS * Scale
  /\ confidence > 0

\* the onset of the step is on the grid, but its implied period is not
\* strictly between MIN_PERIOD_MS and MAX_PERIOD_MS or its nearestBeat is <= 0
UntrustedHit ==
  LET tsp == now' * Scale - phase
      n   == NearestBeat(tsp, period)
  IN  /\ OnGrid(tsp, period)
      /\ \/ n <= 0
         \/ tsp <= MIN_PERIOD_MS * Scale * n
         \/ tsp >= MAX_PERIOD_MS * Scale * n

\* C27: an on-grid onset in TRACKING whose implied period is not strictly
\* between MIN_PERIOD_MS and MAX_PERIOD_MS, or whose nearestBeat is <= 0,
\* increments gridHits by exactly 1 and leaves period, targetPeriod, phase,
\* confidence, recentPeriods and gridMisses as they were.
C27_UntrustedHitOnlyCounts ==
  [][(TrackingStep /\ UntrustedHit)
        => /\ gridHits' = gridHits + 1
           /\ Len(traced') = 1 /\ traced'[1].event = "on_grid"
           /\ UNCHANGED <<period, targetPeriod, phase, confidence,
                          recentPeriods, gridMisses, state>>]_vars

\* C27 witness: on the 166.667 ms grid of setTarget(360) an onset has just
\* fallen on the third beat, implying a period below MIN_PERIOD_MS, and was
\* counted as a hit with the confidence setTarget left
C27_Witness ==
  /\ Tracked /\ traced[1].onGrid /\ traced[1].nearestBeat = 3
  /\ period = PeriodOfBpm(360) /\ targetPeriod = period
  /\ gridHits >= 1 /\ confidence = TargetConfidence
  /\ recentPeriods = <<>>

\* C28: onsetCount, gridHits and gridMisses are all reset to 0 on every
\* (re-)calibration start, the one started by the first onset after WAITING
\* included, and on every double-tempo correction (the onset that starts the
\* recalibration or is corrected may itself be counted in onsetCount).
C28_CountersResetOnRestart ==
  [][/\ Called("reset")
          => onsetCount' = 0 /\ gridHits' = 0 /\ gridMisses' = 0
     /\ (state = WAITING /\ Called("addOnset"))
          => onsetCount' <= 1 /\ gridHits' = 0 /\ gridMisses' = 0
     /\ (TrackingStep /\ OffGridOnset /\ CorrectionFires)
          => onsetCount' <= 1 /\ gridHits' = 0 /\ gridMisses' = 0]_vars

\* C29: an addOnset call in TRACKING that is an off-grid miss or performs a
\* double-tempo correction never leaves confidence higher than it was before
\* the call, and an on-grid hit never leaves it lower.
C29_ConfidenceOneDirection ==
  [][/\ (TrackingStep /\ OffGridOnset) => confidence' <= confidence
     /\ (TrackingStep /\ ~OffGridOnset) => confidence' >= confidence]_vars

\* the confidence a double-tempo correction never goes below
CorrectionFloor == (3 * ConfScale) \div 10

\* C29 amended: an off-grid miss without correction never leaves confidence
\* higher than before, and an on-grid hit never leaves it lower; a
\* double-tempo correction leaves confidence at max(0.3, confidence - 0.22),
\* which is lower than before when confidence was above 0.3 and is 0.3, hence
\* higher than before, when confidence was below 0.3.
C29_ConfidenceDirectionFloored ==
  [][/\ (TrackingStep /\ OffGridOnset /\ ~CorrectionFires)
          => confidence' <= confidence
     /\ (TrackingStep /\ OffGridOnset /\ CorrectionFires)
          => /\ confidence' >= CorrectionFloor
             /\ confidence' <= Max(confidence, CorrectionFloor)
             /\ confidence > CorrectionFloor => confidence' < confidence
             /\ confidence < CorrectionFloor => confidence' = CorrectionFloor
     /\ (TrackingStep /\ ~OffGridOnset) => confidence' >= confidence]_vars

\* C29 witness: a correction has just halved a period that a late hit had
\* stretched beyond 400 ms, and left the confidence at its floor of 0.3
C29_Witness ==
  /\ Tracked /\ traced[1].event = "double_tempo_correction"
  /\ confidence = CorrectionFloor
  /\ period > MIN_PERIOD_MS * Scale /\ 2 * period > PeriodOfBpm(150)
  /\ gridHits = 0 /\ gridMisses = 0 /\ onsetCount >= 25

\* C30: in every reachable state confidence > 0 implies state = TRACKING:
\* confidence is exactly 0 in IDLE, in CALIBRATING (after reset or after resume
\* from WAITING) and in WAITING, for every interleaving of reset, addOnset,
\* setTarget and watchdog ticks.
C30_ConfidenceOnlyWhileTracking ==
  confidence > 0 => state = TRACKING

\* C30 witness: the tracker is recalibrating after a silence that interrupted
\* tracking; it keeps the period it had and has no confidence
C30_Witness ==
  /\ op = "addOnset" /\ state = CALIBRATING /\ confidence = 0
  /\ period > 0 /\ gridHits > 0
  /\ traced # <<>> /\ traced[1].event = "resume_from_waiting"

\* C31: with the default constants and without setTarget, in every state
\* reachable by reset, addOnset (non-decreasing integer timestamps) and
\* watchdog ticks, period is either 0 or strictly greater than MIN_PERIOD_MS
\* and strictly less than 2000 ms.
C31_PeriodInRange ==
  period = 0
    \/ (period > MIN_PERIOD_MS * Scale /\ period < 2000 * Scale)

\* C31 witness: a double-tempo correction has halved a calibrated period, a
\* hit has since pulled the halved period down, and it is within 5% of
\* MIN_PERIOD_MS
C31_Witness ==
  /\ Tracked /\ traced[1].event = "on_grid"
  /\ period > MIN_PERIOD_MS * Scale
  /\ period < 210 * Scale
  /\ Len(calOnsets) > CAL_BEATS /\ calOnsets[2] - calOnsets[1] = 420

\* C32: after reset(), with the watchdog running and no onset fed since, the
\* state stays CALIBRATING on every watchdog tick (the calibration buffer is
\* empty in CALIBRATING exactly when no onset has followed the reset).
C32_ResetNotAbortedBySilence ==
  [][(Called("tick") /\ state = CALIBRATING /\ calOnsets = <<>>)
        => state' = CALIBRATING]_vars

====
